---- MODULE Spec2Model ----
(***************************************************************************)
(* Recognition engine of the face-attendance backend.                      *)
(*                                                                         *)
(*   backend/recognition.py  Recognizer: gallery cache, reload, recognize  *)
(*   backend/detection.py    Detector: availability flag, detect           *)
(*   backend/db.py           embeddings and students tables                *)
(*   backend/app.py          HTTP handlers that mutate embeddings          *)
(*                                                                         *)
(* Request handlers run on server threads.  Every database call is one     *)
(* transaction and every read or write of Recognizer.embeddings is one     *)
(* atomic reference load or store; a handler is a sequence of such steps.  *)
(*                                                                         *)
(* Scores are fixed-point integers in units of 1/Scale.  The epsilon of    *)
(* _cosine (1e-8) is below that resolution; its modelled effect is that a  *)
(* zero denominator gives score 0 instead of a division error.             *)
(***************************************************************************)
EXTENDS Integers, Sequences, FiniteSets, TLC

VARIABLES
    students,     \* ids of the rows of table students
    table,        \* table embeddings: studentId -> stored vector text
    embeddings,   \* Recognizer.embeddings, the gallery cache
    detAvail,     \* detector.available
    recAvail,     \* Recognizer.available
    session,      \* Recognizer.session is not None
    loads,        \* history: results of all completed _load_embeddings passes
    mpc,          \* per mutating thread: position in its handler
    mreq,         \* per mutating thread: the request being served
    mloc,         \* per mutating thread: locals of _load_embeddings
    mresp,        \* per mutating thread: HTTP status returned
    rpc,          \* recognize thread: position in Recognizer.recognize
    rreq,         \* recognize thread: frame and threshold arguments
    rloc,         \* recognize thread: boxes, frame, loop index, faces_out
    rresp,        \* recognize thread: value returned by recognize
    rtrace,       \* history: operations the current recognize call performed
    rfirst        \* history: first gallery the current recognize call read

vars == <<students, table, embeddings, detAvail, recAvail, session, loads,
          mpc, mreq, mloc, mresp, rpc, rreq, rloc, rresp, rtrace, rfirst>>

mutVars == <<mpc, mreq, mloc, mresp>>

recVars == <<rpc, rreq, rloc, rresp, rtrace, rfirst>>

envVars == <<detAvail, recAvail, session>>

-----------------------------------------------------------------------------
(* Bounds *)

NumIds == 2

NumMutators == 2

MaxBoxes == 2

-----------------------------------------------------------------------------
(* Values *)

IdNames == <<"s1", "s2", "s3", "s4">>

Ids == {IdNames[i] : i \in 1..NumIds}

IdIndex(id) == CHOOSE i \in 1..Len(IdNames) : IdNames[i] = id

Mutators == 1..NumMutators

None == "None"

\* An identity no table holds.
Stranger == "s0"

Scale == 100000

Num(items) == [kind |-> "numbers", items |-> items]

NonNumeric == [kind |-> "strings", items |-> <<>>]

\* Texts of the vector column and the values json.loads gives for them.
\* A text that is no first component here is not JSON.
JsonTable ==
    { <<"[1,0]", Num(<<1, 0>>)>>,
      <<"[3,4]", Num(<<3, 4>>)>>,
      <<"[-3,4]", Num(<<-3, 4>>)>>,
      <<"[5,12]", Num(<<5, 12>>)>>,
      <<"[1]", Num(<<1>>)>>,
      <<"[\"a\",0]", NonNumeric>> }

NotJson == "{bad"

json_loads(text) ==
    IF \E p \in JsonTable : p[1] = text
    THEN [raised |-> FALSE, val |-> (CHOOSE p \in JsonTable : p[1] = text)[2]]
    ELSE [raised |-> TRUE, val |-> NonNumeric]

json_dumps(val) == (CHOOSE p \in JsonTable : p[2] = val)[1]

EmptyMap == [k \in {} |-> NonNumeric]

Put(f, k, v) == [x \in DOMAIN f \cup {k} |-> IF x = k THEN v ELSE f[x]]

Remove(f, k) == [x \in DOMAIN f \ {k} |-> f[x]]

MinKey(S) == CHOOSE k \in S : \A o \in S : IdIndex(k) <= IdIndex(o)

-----------------------------------------------------------------------------
(* db.py *)

fetch_embeddings(tbl) == tbl

upsert_embedding(tbl, student_id, vector_json) == Put(tbl, student_id, vector_json)

delete_embedding(tbl, student_id) == Remove(tbl, student_id)

-----------------------------------------------------------------------------
(* recognition.py: gallery cache *)

\* One iteration of the loop of _load_embeddings.
LoadEntry(parsed, k, v) ==
    IF json_loads(v).raised THEN parsed ELSE Put(parsed, k, json_loads(v).val)

RECURSIVE LoadLoop(_, _, _)
LoadLoop(raw, pending, parsed) ==
    IF pending = {} THEN parsed
    ELSE LET k == MinKey(pending)
         IN  LoadLoop(raw, pending \ {k}, LoadEntry(parsed, k, raw[k]))

\* Recognizer._load_embeddings run without interruption (the constructor).
_load_embeddings(tbl) ==
    LET raw == fetch_embeddings(tbl) IN LoadLoop(raw, DOMAIN raw, EmptyMap)

-----------------------------------------------------------------------------
(* recognition.py: matching *)

RECURSIVE DotFrom(_, _, _)
DotFrom(a, b, i) == IF i > Len(a) THEN 0 ELSE a[i] * b[i] + DotFrom(a, b, i + 1)

Dot(a, b) == DotFrom(a, b, 1)

ISqrt(n) == CHOOSE r \in 0..n : r * r <= n /\ (r + 1) * (r + 1) > n

Norm(a) == ISqrt(Dot(a, a))

TruncDiv(n, d) == IF n >= 0 THEN n \div d ELSE -((-n) \div d)

_cosine(a, b) ==
    LET denom == Norm(a) * Norm(b)
    IN  IF denom = 0 THEN 0 ELSE TruncDiv(Dot(a, b) * Scale, denom)

\* Lines 135-136: np.array(vec, dtype="float32") raises on non-numeric
\* content, np.dot raises on vectors of different length.
Score(embedding, vec) ==
    IF vec.kind # "numbers" \/ Len(vec.items) # Len(embedding)
    THEN [raised |-> TRUE, score |-> 0]
    ELSE [raised |-> FALSE, score |-> _cosine(embedding, vec.items)]

\* The scan loop leaving at the first entry that raises.
ScanStepBreak(best, student_id, embedding, vec) ==
    LET r == Score(embedding, vec)
    IN  IF r.raised THEN [id |-> None, score |-> -Scale]
        ELSE IF r.score > best.score THEN [id |-> student_id, score |-> r.score]
        ELSE best

\* One iteration of the scan loop, lines 133-141.
ScanStep(best, student_id, embedding, vec) ==
    LET r == Score(embedding, vec)
    IN  IF r.raised THEN best
        ELSE IF r.score > best.score THEN [id |-> student_id, score |-> r.score]
        ELSE best

RECURSIVE ScanLoop(_, _, _, _, _)
ScanLoop(order, i, gallery, embedding, best) ==
    IF i > Len(order) THEN best
    ELSE ScanLoop(order, i + 1, gallery, embedding,
                  ScanStep(best, order[i], embedding, gallery[order[i]]))

\* Lines 131-141, the gallery iterated in the given order.
Scan(order, gallery, embedding) ==
    ScanLoop(order, 1, gallery, embedding, [id |-> None, score |-> -Scale])

Orders(S) ==
    {o \in [1..Cardinality(S) -> S] : \A i, j \in DOMAIN o : o[i] = o[j] => i = j}

\* round(x, 4) on a score in units of 1/Scale, half away from zero.
Round4(s) ==
    LET u == Scale \div 10000
    IN  IF s >= 0 THEN ((s + u \div 2) \div u) * u ELSE -(((-s) + u \div 2) \div u) * u

\* The decision with a strict comparison.
IsRecognizedStrict(best, threshold) == best.id # None /\ best.score > threshold

\* Line 144.
IsRecognized(best, threshold) == best.id # None /\ best.score >= threshold

\* Line 151.
Confidence(best_score) == IF best_score >= 0 THEN Round4(best_score) ELSE 0

\* Lines 142-153.
Face(box, best, threshold) ==
    [box |-> box,
     studentId |-> IF IsRecognized(best, threshold) THEN best.id ELSE None,
     studentName |-> None,
     confidence |-> Confidence(best.score),
     status |-> IF IsRecognized(best, threshold) THEN "recognized" ELSE "unknown"]

-----------------------------------------------------------------------------
(* Frames.  A frame is described by what the vision stack makes of it:     *)
(* whether it decodes, and for each face region the cascade finds, what    *)
(* cropping, resizing and inference do on that region.                     *)

Inferred(vec) == [raised |-> FALSE, vec |-> vec]

InferenceError == [raised |-> TRUE, vec |-> <<>>]

Region(crop, out) == [crop |-> crop, out |-> out]

RegionKinds(queries) ==
    {Region("empty", InferenceError), Region("resize_error", InferenceError),
     Region("ok", InferenceError)} \cup {Region("ok", Inferred(q)) : q \in queries}

SeqsUpTo(S, n) == UNION {[1..k -> S] : k \in 0..n}

Undecodable == [decodable |-> FALSE, regions |-> <<>>]

Frames(queries) ==
    {Undecodable} \cup
    {[decodable |-> TRUE, regions |-> r] : r \in SeqsUpTo(RegionKinds(queries), MaxBoxes)}

DefaultThreshold == 85000

Thresholds == {DefaultThreshold, 60000, -Scale}

-----------------------------------------------------------------------------
(* detection.py *)

\* Detector.detect: the boxes in detection order, a box named by its rank.
detect(available, frame) ==
    IF ~available THEN <<>>
    ELSE IF ~frame.decodable THEN <<>>
    ELSE [i \in 1..Len(frame.regions) |-> i]

-----------------------------------------------------------------------------
(* recognition.py: startup *)

\* Recognizer.__init__ and _load_model: runtime is RUNTIME_AVAILABLE, model
\* is the state of the file at MODEL_PATH.
InitAvailable(runtime, det, model) == runtime /\ det /\ model # "corrupt"

InitSession(runtime, det, model) == runtime /\ det /\ model = "loads"

ModelFiles == {"absent", "loads", "corrupt"}

\* RUNTIME_AVAILABLE needs the imports OPENCV_AVAILABLE needs, and onnxruntime.
Startups ==
    {[det |-> o, avail |-> InitAvailable(r, o, m), session |-> InitSession(r, o, m)] :
        <<o, r, m>> \in {x \in BOOLEAN \X BOOLEAN \X ModelFiles : x[2] => x[1]}}

-----------------------------------------------------------------------------
(* recognition.py: recognize *)

NoFrame == [none |-> TRUE, regions |-> <<>>]

_decode_frame(frame) ==
    IF ~frame.decodable THEN NoFrame ELSE [none |-> FALSE, regions |-> frame.regions]

Returned(v) == [raised |-> FALSE, none |-> FALSE, val |-> v]

ReturnedNone == [raised |-> FALSE, none |-> TRUE, val |-> InferenceError]

Raised == [raised |-> TRUE, none |-> FALSE, val |-> InferenceError]

\* The tensor stands for the crop: it carries what inference gives on it.
_preprocess(frame, box) ==
    IF frame.none THEN ReturnedNone
    ELSE IF frame.regions[box].crop = "empty" THEN ReturnedNone
    ELSE IF frame.regions[box].crop = "resize_error" THEN Raised
    ELSE Returned(frame.regions[box].out)

_embed(sess, tensor) ==
    IF ~sess THEN ReturnedNone
    ELSE IF tensor.raised THEN Raised
    ELSE Returned(tensor)

MsgUnavailable == "OpenCV not installed; detection unavailable."

MsgDetectionOnly == "Detection only. Add model + embeddings to enable recognition."

MsgExecuted == "Recognition executed"

MsgNoFaces == "No faces"

NoResponse == [available |-> FALSE, message |-> "", faces |-> <<>>]

\* Lines 112-118.
DetectionOnlyFace(box) ==
    [box |-> box, studentId |-> None, studentName |-> None, confidence |-> 0,
     status |-> "unknown"]

\* A message naming the cause.
DetectionOnlyMessageByCause(avail, sess) ==
    IF ~avail \/ ~sess THEN "Detection only. No model." ELSE "Detection only. No gallery entries."

\* Line 110.
DetectionOnlyMessage(avail, sess) == MsgDetectionOnly

\* Lines 108-121.
DetectionOnly(avail, sess, boxes) ==
    [available |-> TRUE, message |-> DetectionOnlyMessage(avail, sess),
     faces |-> [i \in 1..Len(boxes) |-> DetectionOnlyFace(boxes[i])]]

IdleLoc == [boxes |-> <<>>, frame |-> NoFrame, i |-> 0, faces_out |-> <<>>]

IdleReq == [frame |-> Undecodable, threshold |-> DefaultThreshold]

NotRead == [k \in {None} |-> NonNumeric]

\* recognize entered without the early return of lines 97-102.
RecognizeStartNoGuard(frame, threshold) ==
    /\ rpc = "idle"
    /\ rreq' = [frame |-> frame, threshold |-> threshold]
    /\ rloc' = [boxes |-> detect(detAvail, frame),
                frame |-> IF recAvail THEN _decode_frame(frame) ELSE NoFrame,
                i |-> 0, faces_out |-> <<>>]
    /\ rtrace' = {"detect"} \cup (IF recAvail THEN {"decode"} ELSE {})
    /\ rpc' = "check"
    /\ UNCHANGED <<rresp, rfirst, students, table, embeddings, loads, envVars, mutVars>>

\* Lines 96-105: the availability test, detection and decoding.
RecognizeStart(frame, threshold) ==
    /\ rpc = "idle"
    /\ rreq' = [frame |-> frame, threshold |-> threshold]
    /\ IF ~detAvail
       THEN /\ rresp' = [available |-> FALSE, message |-> MsgUnavailable, faces |-> <<>>]
            /\ rpc' = "done"
            /\ UNCHANGED <<rloc, rtrace>>
       ELSE /\ rloc' = [boxes |-> detect(detAvail, frame),
                        frame |-> IF recAvail THEN _decode_frame(frame) ELSE NoFrame,
                        i |-> 0, faces_out |-> <<>>]
            /\ rtrace' = {"detect"} \cup (IF recAvail THEN {"decode"} ELSE {})
            /\ rpc' = "check"
            /\ UNCHANGED rresp
    /\ UNCHANGED <<rfirst, students, table, embeddings, loads, envVars, mutVars>>

\* Line 107 without the test of the gallery.
RecognizeCheckNoGallery ==
    /\ rpc = "check"
    /\ IF ~recAvail \/ ~session
       THEN /\ rresp' = DetectionOnly(recAvail, session, rloc.boxes)
            /\ rpc' = "done"
            /\ UNCHANGED <<rloc, rtrace, rfirst>>
       ELSE /\ rtrace' = rtrace \cup {"gallery"}
            /\ rfirst' = embeddings
            /\ rloc' = [rloc EXCEPT !.i = 1]
            /\ rpc' = "scan"
            /\ UNCHANGED rresp
    /\ UNCHANGED <<rreq, students, table, embeddings, loads, envVars, mutVars>>

\* Lines 107-121: the regime test; self.embeddings is read only when the
\* first two operands of the "or" are false.
RecognizeCheck ==
    /\ rpc = "check"
    /\ IF ~recAvail \/ ~session
       THEN /\ rresp' = DetectionOnly(recAvail, session, rloc.boxes)
            /\ rpc' = "done"
            /\ UNCHANGED <<rloc, rtrace, rfirst>>
       ELSE /\ rtrace' = rtrace \cup {"gallery"}
            /\ rfirst' = embeddings
            /\ IF DOMAIN embeddings = {}
               THEN /\ rresp' = DetectionOnly(recAvail, session, rloc.boxes)
                    /\ rpc' = "done"
                    /\ UNCHANGED rloc
               ELSE /\ rloc' = [rloc EXCEPT !.i = 1]
                    /\ rpc' = "scan"
                    /\ UNCHANGED rresp
    /\ UNCHANGED <<rreq, students, table, embeddings, loads, envVars, mutVars>>

\* Lines 124-154: one iteration of the loop over boxes.  self.embeddings is
\* read when the scan of this box starts; an exception of cv2.resize or of
\* session.run is not caught and ends the call.
RecognizeBox ==
    /\ rpc = "scan"
    /\ rloc.i <= Len(rloc.boxes)
    /\ LET box == rloc.boxes[rloc.i]
           tensor == _preprocess(rloc.frame, box)
           embedding == _embed(session, tensor.val)
       IN  IF tensor.raised
           THEN /\ rpc' = "raised"
                /\ rtrace' = rtrace \cup {"preprocess"}
                /\ UNCHANGED rloc
           ELSE IF tensor.none
           THEN /\ rloc' = [rloc EXCEPT !.i = @ + 1]
                /\ rtrace' = rtrace \cup {"preprocess"}
                /\ UNCHANGED rpc
           ELSE IF embedding.raised
           THEN /\ rpc' = "raised"
                /\ rtrace' = rtrace \cup {"preprocess", "embed"}
                /\ UNCHANGED rloc
           ELSE IF embedding.none
           THEN /\ rloc' = [rloc EXCEPT !.i = @ + 1]
                /\ rtrace' = rtrace \cup {"preprocess", "embed"}
                /\ UNCHANGED rpc
           ELSE \E order \in Orders(DOMAIN embeddings) :
                /\ rloc' = [rloc EXCEPT
                       !.i = @ + 1,
                       !.faces_out = Append(@,
                           Face(box, Scan(order, embeddings, embedding.val.vec),
                                rreq.threshold))]
                /\ rtrace' = rtrace \cup {"preprocess", "embed", "gallery"}
                /\ UNCHANGED rpc
    /\ UNCHANGED <<rreq, rresp, rfirst, students, table, embeddings, loads, envVars,
                   mutVars>>

\* Lines 156-160.
RecognizeReturn ==
    /\ rpc = "scan"
    /\ rloc.i > Len(rloc.boxes)
    /\ rresp' = [available |-> TRUE,
                 message |-> IF rloc.faces_out # <<>> THEN MsgExecuted ELSE MsgNoFaces,
                 faces |-> rloc.faces_out]
    /\ rpc' = "done"
    /\ UNCHANGED <<rreq, rloc, rtrace, rfirst, students, table, embeddings, loads,
                   envVars, mutVars>>

\* The thread takes up the next request.
RecognizeNext ==
    /\ rpc \in {"done", "raised"}
    /\ rpc' = "idle"
    /\ rreq' = IdleReq
    /\ rloc' = IdleLoc
    /\ rresp' = NoResponse
    /\ rtrace' = {}
    /\ rfirst' = NotRead
    /\ UNCHANGED <<students, table, embeddings, loads, envVars, mutVars>>

-----------------------------------------------------------------------------
(* Recognition alone: one thread calling recognize, no mutation running.   *)

MatchTexts == {p[1] : p \in JsonTable} \cup {NotJson}

MatchQueries == {<<1, 0>>}

Tables(texts) == UNION {[S -> texts] : S \in SUBSET Ids}

MatchFrames == Frames(MatchQueries)

IdleMloc == [raw |-> EmptyMap, pending |-> {}, parsed |-> EmptyMap]

IdleMreq == [kind |-> "none", id |-> None, vector |-> NonNumeric, removed |-> FALSE]

InitThreads ==
    /\ mpc = [m \in Mutators |-> "idle"]
    /\ mreq = [m \in Mutators |-> IdleMreq]
    /\ mloc = [m \in Mutators |-> IdleMloc]
    /\ mresp = [m \in Mutators |-> 0]
    /\ rpc = "idle"
    /\ rreq = IdleReq
    /\ rloc = IdleLoc
    /\ rresp = NoResponse
    /\ rtrace = {}
    /\ rfirst = NotRead

InitMatch ==
    /\ table \in Tables(MatchTexts)
    /\ students = DOMAIN table
    /\ embeddings = _load_embeddings(table)
    /\ loads = {_load_embeddings(table)}
    /\ \E s \in Startups : detAvail = s.det /\ recAvail = s.avail /\ session = s.session
    /\ InitThreads

NextMatch ==
    \/ \E f \in MatchFrames, th \in Thresholds : RecognizeStart(f, th)
    \/ RecognizeCheck
    \/ RecognizeBox
    \/ RecognizeReturn
    \/ RecognizeNext

SpecMatch == InitMatch /\ [][NextMatch]_vars

-----------------------------------------------------------------------------
(* app.py: the handlers that mutate embeddings, on concurrent threads.     *)

\* The names lines 1-27 of app.py bind in the module's namespace.
AppGlobals ==
    {"datetime", "os", "uuid", "Flask", "jsonify", "request", "CORS", "init_db",
     "fetch_students", "insert_student", "delete_student", "fetch_attendance",
     "insert_attendance", "db_fetch_settings", "db_update_settings", "save_face_image",
     "fetch_embeddings", "upsert_embedding", "delete_embedding", "detector", "app",
     "recognizer"}

\* Evaluating a name the module does not bind raises NameError.
NameBound(name) == name \in AppGlobals

\* "embedding" or "vector" absent from the request body.
Absent == [kind |-> "absent", items |-> <<>>]

Vectors == {Num(<<3, 4>>)}

\* The cache while a pass of _load_embeddings fills the mapping in place.
CacheDuringLoadInPlace(cache, parsed) == parsed

\* The cache while a pass of _load_embeddings runs: parsed is a local of the
\* pass, self.embeddings is stored once, after the pass returned.
CacheDuringLoad(cache, parsed) == cache

\* add_student, lines 44-71, without photoBase64.  insert_student raises
\* on an id the students table holds; json.dumps is evaluated before
\* upsert_embedding is entered.
AddStudent(m, id, embedding) ==
    /\ mpc[m] = "idle"
    /\ mreq' = [mreq EXCEPT ![m] =
                   [kind |-> "post", id |-> id, vector |-> embedding, removed |-> FALSE]]
    /\ IF id \in students
       THEN /\ mresp' = [mresp EXCEPT ![m] = 500]
            /\ mpc' = [mpc EXCEPT ![m] = "done"]
            /\ UNCHANGED <<students, table>>
       ELSE /\ students' = students \cup {id}
            /\ IF embedding.kind # "absent" /\ NameBound("json")
               THEN /\ table' = upsert_embedding(table, id, json_dumps(embedding))
                    /\ mpc' = [mpc EXCEPT ![m] = "fetch"]
                    /\ UNCHANGED mresp
               ELSE /\ mresp' = [mresp EXCEPT ![m] = 201]
                    /\ mpc' = [mpc EXCEPT ![m] = "done"]
                    /\ UNCHANGED table
    /\ UNCHANGED <<embeddings, loads, mloc, envVars, recVars>>

\* put_embedding, lines 121-133.
PutEmbedding(m, id, vector) ==
    /\ mpc[m] = "idle"
    /\ mreq' = [mreq EXCEPT ![m] =
                   [kind |-> "put", id |-> id, vector |-> vector, removed |-> FALSE]]
    /\ IF id = None \/ vector.kind = "absent"
       THEN /\ mresp' = [mresp EXCEPT ![m] = 400]
            /\ mpc' = [mpc EXCEPT ![m] = "done"]
            /\ UNCHANGED table
       ELSE IF ~NameBound("json")
       THEN /\ mresp' = [mresp EXCEPT ![m] = 500]
            /\ mpc' = [mpc EXCEPT ![m] = "done"]
            /\ UNCHANGED table
       ELSE /\ table' = upsert_embedding(table, id, json_dumps(vector))
            /\ mpc' = [mpc EXCEPT ![m] = "fetch"]
            /\ UNCHANGED mresp
    /\ UNCHANGED <<students, embeddings, loads, mloc, envVars, recVars>>

\* delete_student_api, line 76: delete_student.
DeleteStudent(m, id) ==
    /\ mpc[m] = "idle"
    /\ mreq' = [mreq EXCEPT ![m] =
                   [kind |-> "delete", id |-> id, vector |-> Absent,
                    removed |-> id \in students]]
    /\ students' = students \ {id}
    /\ mpc' = [mpc EXCEPT ![m] = "del_emb"]
    /\ UNCHANGED <<table, embeddings, loads, mloc, mresp, envVars, recVars>>

\* delete_student_api, line 77: delete_embedding.
DeleteEmbedding(m) ==
    /\ mpc[m] = "del_emb"
    /\ table' = delete_embedding(table, mreq[m].id)
    /\ mpc' = [mpc EXCEPT ![m] = "fetch"]
    /\ UNCHANGED <<students, embeddings, loads, mreq, mloc, mresp, envVars, recVars>>

\* reload_embeddings -> _load_embeddings, line 33: fetch_embeddings.
ReloadFetch(m) ==
    /\ mpc[m] = "fetch"
    /\ mloc' = [mloc EXCEPT ![m] =
                   [raw |-> fetch_embeddings(table), pending |-> DOMAIN table,
                    parsed |-> EmptyMap]]
    /\ mpc' = [mpc EXCEPT ![m] = "parse"]
    /\ UNCHANGED <<students, table, embeddings, loads, mreq, mresp, envVars, recVars>>

\* _load_embeddings, lines 35-39: one iteration.
ReloadParse(m) ==
    /\ mpc[m] = "parse"
    /\ mloc[m].pending # {}
    /\ LET k == MinKey(mloc[m].pending)
           parsed == LoadEntry(mloc[m].parsed, k, mloc[m].raw[k])
       IN  /\ mloc' = [mloc EXCEPT ![m].pending = @ \ {k}, ![m].parsed = parsed]
           /\ embeddings' = CacheDuringLoad(embeddings, parsed)
    /\ UNCHANGED <<students, table, loads, mpc, mreq, mresp, envVars, recVars>>

\* _load_embeddings returns (line 40) and line 43 stores the result.
ReloadAssign(m) ==
    /\ mpc[m] = "parse"
    /\ mloc[m].pending = {}
    /\ embeddings' = mloc[m].parsed
    /\ loads' = loads \cup {mloc[m].parsed}
    /\ mpc' = [mpc EXCEPT ![m] = "respond"]
    /\ UNCHANGED <<students, table, mreq, mloc, mresp, envVars, recVars>>

\* The handler returns its response after reload_embeddings.
Respond(m) ==
    /\ mpc[m] = "respond"
    /\ mresp' = [mresp EXCEPT ![m] =
                    IF mreq[m].kind = "post" THEN 201
                    ELSE IF mreq[m].kind = "delete" /\ ~mreq[m].removed THEN 404
                    ELSE 200]
    /\ mpc' = [mpc EXCEPT ![m] = "done"]
    /\ UNCHANGED <<students, table, embeddings, loads, mreq, mloc, envVars, recVars>>

\* The thread takes up the next request.
MutatorNext(m) ==
    /\ mpc[m] = "done"
    /\ mpc' = [mpc EXCEPT ![m] = "idle"]
    /\ mreq' = [mreq EXCEPT ![m] = IdleMreq]
    /\ mloc' = [mloc EXCEPT ![m] = IdleMloc]
    /\ mresp' = [mresp EXCEPT ![m] = 0]
    /\ UNCHANGED <<students, table, embeddings, loads, envVars, recVars>>

ConcTexts == {"[1,0]", NotJson}

ConcQueries == {<<1, 0>>}

\* Frames whose regions all preprocess and embed.
ConcFrames ==
    {f \in Frames(ConcQueries) :
        \A i \in DOMAIN f.regions : f.regions[i].crop = "ok" /\ ~f.regions[i].out.raised}

Init ==
    /\ table \in Tables(ConcTexts)
    /\ students = DOMAIN table
    /\ embeddings = _load_embeddings(table)
    /\ loads = {_load_embeddings(table)}
    /\ \E s \in Startups : detAvail = s.det /\ recAvail = s.avail /\ session = s.session
    /\ InitThreads

MutatorStep(m) ==
    \/ \E id \in Ids, e \in Vectors \cup {Absent} : AddStudent(m, id, e)
    \/ \E id \in Ids \cup {None}, v \in Vectors \cup {Absent} : PutEmbedding(m, id, v)
    \/ \E id \in Ids \cup {Stranger} : DeleteStudent(m, id)
    \/ DeleteEmbedding(m)
    \/ ReloadFetch(m)
    \/ ReloadParse(m)
    \/ ReloadAssign(m)
    \/ Respond(m)
    \/ MutatorNext(m)

Next == \E m \in Mutators : MutatorStep(m)

Spec == Init /\ [][Next]_vars

-----------------------------------------------------------------------------
(* One mutating thread beside the recognize thread.                        *)

NextRead ==
    \/ MutatorStep(1)
    \/ \E f \in ConcFrames : RecognizeStart(f, DefaultThreshold)
    \/ RecognizeCheck
    \/ RecognizeBox
    \/ RecognizeReturn
    \/ RecognizeNext

SpecRead == Init /\ [][NextRead]_vars

-----------------------------------------------------------------------------
(* Properties *)

Decodable(text) == text \in {p[1] : p \in JsonTable}

\* The decoded content of a table: every decodable row, as its JSON value.
DecodedContent(tbl) ==
    [k \in {x \in DOMAIN tbl : Decodable(tbl[x])} |->
        (CHOOSE p \in JsonTable : p[1] = tbl[k])[2]]

Quiescent == \A m \in Mutators : mpc[m] \in {"idle", "done"}

\* C1: whenever every mutating request that has started has completed, the
\* gallery cache equals the decoded content of the embeddings table.
C1_CacheFreshWhenQuiescent == Quiescent => embeddings = DecodedContent(table)

\* C2: the cache, and the gallery a recognize call read, is always the full
\* result of some completed pass of _load_embeddings, never the partial
\* mapping of a pass in progress.
C2_NoPartialGallery ==
    /\ embeddings \in loads
    /\ rfirst \in loads \cup {NotRead}

\* A pass is under way, has parsed some rows and has more to parse, and the
\* recognize call has read the gallery meanwhile.
C2_Witness ==
    /\ mpc[1] = "parse"
    /\ mloc[1].pending # {}
    /\ mloc[1].parsed # EmptyMap
    /\ mloc[1].parsed # embeddings
    /\ rpc = "scan"

HasVector(id, vector) ==
    /\ id \in DOMAIN table
    /\ json_loads(table[id]) = [raised |-> FALSE, val |-> vector]
    /\ id \in DOMAIN embeddings
    /\ embeddings[id] = vector

EffectVisible(m) ==
    IF mreq[m].kind = "post" /\ mreq[m].vector.kind # "absent" /\ mresp[m] = 201
    THEN HasVector(mreq[m].id, mreq[m].vector)
    ELSE IF mreq[m].kind = "put" /\ mreq[m].id # None /\ mreq[m].vector.kind # "absent"
    THEN HasVector(mreq[m].id, mreq[m].vector)
    ELSE IF mreq[m].kind = "delete"
    THEN mreq[m].id \notin DOMAIN table /\ mreq[m].id \notin DOMAIN embeddings
    ELSE TRUE

\* C3: when POST /api/students with an embedding or PUT /api/embeddings with
\* an id and a vector returns, the table and the cache map the identity to the
\* submitted vector; when DELETE returns, neither holds the identity.
C3_MutationVisibleOnReturn ==
    [][\A m \in Mutators : (mpc[m] # "done" /\ mpc'[m] = "done") => EffectVisible(m)']_vars

RecognitionRan == rpc = "done" /\ rresp.message \in {MsgExecuted, MsgNoFaces}

GoodRegion(r) == r.crop = "ok" /\ ~r.out.raised

GoodBoxes(frame) ==
    SelectSeq([i \in 1..Len(frame.regions) |-> i], LAMBDA i : GoodRegion(frame.regions[i]))

FaceBoxes(faces) == [i \in 1..Len(faces) |-> faces[i].box]

\* C4: a box whose preprocessing or inference fails contributes no face, every
\* other box is reported, and no exception escapes recognize.
C4_BoxFailureIsolated ==
    /\ rpc # "raised"
    /\ RecognitionRan => FaceBoxes(rresp.faces) = GoodBoxes(rreq.frame)

MaxOf(S) == CHOOSE x \in S : \A y \in S : y <= x

WellFormed(gallery, q) == {k \in DOMAIN gallery : ~Score(q, gallery[k]).raised}

ScoreOfId(gallery, q, k) == Score(q, gallery[k]).score

QueryOf(face) == rreq.frame.regions[face.box].out.vec

BestOver(gallery, q) ==
    MaxOf({ScoreOfId(gallery, q, k) : k \in WellFormed(gallery, q)} \cup {-Scale})

FacesOf(resp) == {resp.faces[i] : i \in 1..Len(resp.faces)}

\* C5 as stated: recognized with a maximum-score identity exactly when the best
\* score over the gallery is >= threshold, otherwise unknown and null, and the
\* confidence is the rounded best score, also when it is negative.
C5_ConfidenceIsBestScore ==
    RecognitionRan =>
        \A f \in FacesOf(rresp) :
            LET q == QueryOf(f)
                W == WellFormed(embeddings, q)
                best == BestOver(embeddings, q)
            IN  W # {} =>
                  /\ f.status = "recognized" <=> best >= rreq.threshold
                  /\ f.status = "recognized" =>
                        f.studentId \in W /\ ScoreOfId(embeddings, q, f.studentId) = best
                  /\ f.status = "unknown" => f.studentId = None
                  /\ f.status \in {"recognized", "unknown"}
                  /\ f.confidence = Round4(best)

\* C5 amended: recognized with a maximum-score identity exactly when some entry
\* scores above -1 and the best score is >= threshold, otherwise unknown and
\* null; the confidence is the rounded best score when that is >= 0, and 0
\* when it is negative.
C5_MatchDecision ==
    RecognitionRan =>
        \A f \in FacesOf(rresp) :
            LET q == QueryOf(f)
                W == WellFormed(embeddings, q)
                best == BestOver(embeddings, q)
            IN  /\ f.status = "recognized" <=> (best > -Scale /\ best >= rreq.threshold)
                /\ f.status = "recognized" =>
                      f.studentId \in W /\ ScoreOfId(embeddings, q, f.studentId) = best
                /\ f.status = "unknown" => f.studentId = None
                /\ f.status \in {"recognized", "unknown"}
                /\ f.confidence = (IF best >= 0 THEN Round4(best) ELSE 0)

\* A face recognized on a negative best score, reported with confidence 0.
C5_Witness ==
    /\ RecognitionRan
    /\ \E f \in FacesOf(rresp) :
          /\ f.status = "recognized"
          /\ BestOver(embeddings, QueryOf(f)) < 0
          /\ f.confidence = 0

CannotRecognize == ~recAvail \/ ~session \/ rfirst = EmptyMap

\* C6: with detection available and recognition unable to run, the response
\* has available = true and one face per detected box, in detection order,
\* each with null identity and name, confidence 0 and status unknown.
C6_DetectionOnlyFaces ==
    (rpc = "done" /\ detAvail /\ CannotRecognize) =>
        /\ rresp.available
        /\ Len(rresp.faces) = Len(detect(TRUE, rreq.frame))
        /\ \A i \in 1..Len(rresp.faces) :
              rresp.faces[i] =
                  [box |-> detect(TRUE, rreq.frame)[i], studentId |-> None,
                   studentName |-> None, confidence |-> 0, status |-> "unknown"]

\* The model did not load and two boxes were detected, one of them a crop
\* that cannot be preprocessed.
C6_Witness ==
    /\ rpc = "done"
    /\ detAvail
    /\ ~session
    /\ Len(rresp.faces) = 2
    /\ \E i \in 1..2 : ~GoodRegion(rreq.frame.regions[i])

\* C7 as stated: the message returned when the model is loaded and the gallery
\* is empty differs from the message returned when the model is unavailable.
C7_MessageNamesCause ==
    (rpc = "done" /\ detAvail /\ recAvail /\ session /\ rfirst = EmptyMap) =>
        rresp.message # DetectionOnlyMessage(FALSE, FALSE)

\* C7 amended: in the detection-only regime the message is the same text,
\* whether the model is unavailable or the gallery is empty.
C7_OneDetectionOnlyMessage ==
    (rpc = "done" /\ detAvail /\ CannotRecognize) => rresp.message = MsgDetectionOnly

\* The model is loaded and the gallery the call read is empty.
C7_Witness ==
    /\ rpc = "done"
    /\ detAvail /\ recAvail /\ session
    /\ rfirst = EmptyMap
    /\ rresp.message = MsgDetectionOnly

\* C8: with the detector unavailable recognize returns available = false and
\* no faces, and never decodes, detects, reads the gallery or infers.
C8_UnavailableShortCircuit ==
    ~detAvail =>
        /\ rpc \in {"idle", "done"}
        /\ rtrace = {}
        /\ rfirst = NotRead
        /\ rpc = "done" => ~rresp.available /\ rresp.faces = <<>>

\* The detector is unavailable and a call on a frame with faces returned.
C8_Witness ==
    /\ ~detAvail
    /\ rpc = "done"
    /\ rreq.frame.decodable
    /\ Len(rreq.frame.regions) = MaxBoxes

\* C9: every face of a response is the match of its box against the gallery
\* the call read first.
C9_OneSnapshotPerCall ==
    (RecognitionRan /\ rfirst # NotRead) =>
        \A f \in FacesOf(rresp) :
            f \in {Face(f.box, Scan(o, rfirst, QueryOf(f)), rreq.threshold) :
                      o \in Orders(DOMAIN rfirst)}

Restrict(g, S) == [k \in S |-> g[k]]

\* C10: the cache holds exactly the decodable rows of the table, and every
\* face is the match over exactly the well-formed entries of the gallery; a
\* gallery of malformed entries alone gives unknown with confidence 0.
C10_MalformedEntriesSkipped ==
    /\ embeddings = DecodedContent(table)
    /\ RecognitionRan =>
          \A f \in FacesOf(rresp) :
              LET q == QueryOf(f)
                  W == WellFormed(embeddings, q)
              IN  /\ f \in {Face(f.box, Scan(o, Restrict(embeddings, W), q),
                                 rreq.threshold) : o \in Orders(W)}
                  /\ W = {} => f.status = "unknown" /\ f.confidence = 0
                  /\ f.status = "recognized" => f.studentId \in W

\* The gallery holds a malformed entry beside a well-formed one and a face was
\* recognized against it.
C10_Witness ==
    /\ RecognitionRan
    /\ \E f \in FacesOf(rresp) :
          /\ f.status = "recognized"
          /\ WellFormed(embeddings, QueryOf(f)) # DOMAIN embeddings

====
